---- MODULE Spec2Model ----
(***************************************************************************)
(* Model of js/modelViewer.js: the ModelViewer class.                      *)
(*                                                                         *)
(* JavaScript runs every task to completion, so the constructor's four     *)
(* calls form one uninterrupted sequence (tracked by pc) and the load      *)
(* callbacks, the resize listener and the frame callback run only once     *)
(* the constructor has returned (pc = "idle") or has thrown                *)
(* (pc = "threw").                                                         *)
(*                                                                         *)
(* Lengths are fixed-point integers, 100 per world unit: the camera        *)
(* position (0, 1.5, 4) is <<0, 150, 400>>.  Factors are applied as        *)
(* integer multiplications followed by a truncating division.              *)
(***************************************************************************)
EXTENDS Integers, Sequences, FiniteSets

VARIABLES
    pc,          \* position of the constructor: new, init_done, lights_done,
                 \* load_started, idle (returned), threw
    container,   \* this.container: "element" or "null"
    window,      \* <<innerWidth, innerHeight>>
    camera,      \* this.camera: fov, aspect, position
    renderer,    \* this.renderer: size, canvas style, attached, frame
    controls,    \* this.controls: Null or the OrbitControls configuration
    scene,       \* this.scene.children, in order of insertion
    model,       \* this.model: Null or the loaded scene object
    mixer,       \* this.mixer: Null or the AnimationMixer
    loader,      \* the GLTFLoader request: state and number of load calls
    listeners,   \* number of resize listeners registered on window
    rafPending,  \* frame callbacks requested and not yet run
    console,     \* number of console.log and console.error calls
    ctorLog,     \* methods the constructor has called, in order
    frameLog,    \* library calls made by the last run of animate, in order
    lastRender   \* what the last render call drew

vars == <<pc, container, window, camera, renderer, controls, scene, model,
          mixer, loader, listeners, rafPending, console, ctorLog, frameLog,
          lastRender>>

----------------------------------------------------------------------------
(* Bounds of the model *)

\* most animation clips an asset carries
MaxClips == 2
\* duration of a clip, in clock ticks; a playing clip loops
ClipLen == 2
\* largest clock delta between two frames, in ticks
MaxDelta == 1
\* most progress events of one load
MaxProgress == 1
\* the renderer's frame counter is kept modulo this
FrameWrap == 2

\* window sizes <<innerWidth, innerHeight>> the browser may take
WindowSizes == {<<800, 600>>, <<1600, 900>>, <<600, 800>>}

\* local bounding boxes of the assets the file may hold: min and max corner
AssetBoxes ==
    { [min |-> <<-50, 0, -50>>,     max |-> <<50, 150, 50>>],
      [min |-> <<0, -100, 25>>,     max |-> <<50, 0, 75>>],
      [min |-> <<-500, -25, -250>>, max |-> <<500, 175, 250>>],
      [min |-> <<-25, -25, -25>>,   max |-> <<25, 25, 25>>] }

Assets == [box : AssetBoxes, animations : 0..MaxClips]

----------------------------------------------------------------------------
(* Values *)

Null == [null |-> TRUE]

\* variant: the two rim lights are missing
LightsNoRim == <<"ambientLight", "frontLight", "backLight">>

\* the objects setupLights() adds, in order
Lights == <<"ambientLight", "frontLight", "backLight", "rightLight", "leftLight">>

Fov == 75
MinDistance == 200
MaxDistance == 1000
CameraInitPosition == <<0, 150, 400>>
TargetInit == <<0, 50, 0>>
ModelInitPosition == <<0, -50, 0>>

----------------------------------------------------------------------------
(* Arithmetic of the library calls *)

Abs(a) == IF a < 0 THEN -a ELSE a

\* a / b for b > 0, truncated toward zero
TruncDiv(a, b) == IF a >= 0 THEN a \div b ELSE -((-a) \div b)

Max2(a, b) == IF a >= b THEN a ELSE b

RECURSIVE SqrtSearch(_, _, _)
SqrtSearch(n, lo, hi) ==
    IF lo >= hi THEN lo
    ELSE LET mid == (lo + hi + 1) \div 2
         IN  IF mid <= n \div mid THEN SqrtSearch(n, mid, hi)
                                  ELSE SqrtSearch(n, lo, mid - 1)

\* floor of the square root
ISqrt(n) == SqrtSearch(n, 0, n)

VAdd(a, b) == <<a[1] + b[1], a[2] + b[2], a[3] + b[3]>>
VSub(a, b) == <<a[1] - b[1], a[2] - b[2], a[3] - b[3]>>
VLength(a) == ISqrt(a[1] * a[1] + a[2] * a[2] + a[3] * a[3])
VSetLength(a, len) ==
    LET r == VLength(a)
    IN  IF r = 0 THEN a
        ELSE <<TruncDiv(a[1] * len, r), TruncDiv(a[2] * len, r),
               TruncDiv(a[3] * len, r)>>

\* window.innerWidth / window.innerHeight, kept as a fraction
Aspect(w) == [num |-> w[1], den |-> w[2]]

----------------------------------------------------------------------------
(* The library calls the viewer makes, by what they do *)

\* Math.sin(fov * (Math.PI / 180) / 2), in thousandths
SinHalfFov(fov) ==
    CASE fov = 60 -> 500
      [] fov = 75 -> 609
      [] fov = 90 -> 707

\* OrbitControls.rotateLeft applied by update() while autoRotate is on: the
\* offset from the target turns about the vertical axis.  The turn is
\* taken as a quarter turn, the rotation that is exact on integers.
AutoRotate(offset) == <<offset[3], offset[2], -offset[1]>>

\* OrbitControls.update() restricts the radius to [minDistance, maxDistance]
ClampDistance(offset, minD, maxD) ==
    LET r2 == offset[1] * offset[1] + offset[2] * offset[2]
              + offset[3] * offset[3]
    IN  IF r2 > maxD * maxD THEN VSetLength(offset, maxD)
        ELSE IF r2 < minD * minD THEN VSetLength(offset, minD)
        ELSE offset

\* OrbitControls.update(): the new camera position
ControlsUpdate(position, ctl) ==
    LET offset == VSub(position, ctl.target)
        turned == IF ctl.autoRotate THEN AutoRotate(offset) ELSE offset
    IN  VAdd(ctl.target,
             ClampDistance(turned, ctl.minDistance, ctl.maxDistance))

\* new THREE.Box3().setFromObject(m): the box in world coordinates
SetFromObject(m) ==
    LET world(v) == <<TruncDiv(v[1] * m.scale[1], 100) + m.position[1],
                      TruncDiv(v[2] * m.scale[2], 100) + m.position[2],
                      TruncDiv(v[3] * m.scale[3], 100) + m.position[3]>>
    IN  [min |-> world(m.box.min), max |-> world(m.box.max)]

\* Box3.getCenter and Box3.getSize
GetCenter(b) == <<TruncDiv(b.min[1] + b.max[1], 2),
                  TruncDiv(b.min[2] + b.max[2], 2),
                  TruncDiv(b.min[3] + b.max[3], 2)>>
GetSize(b) == VSub(b.max, b.min)

\* variant: animate() does not request the next frame
RequestNoFrame(n) == n

\* requestAnimationFrame(cb): one more callback pending
RequestAnimationFrame(n) == n + 1

\* variant: the listener is registered twice
AddResizeListenerTwice(n) == n + 2

\* window.addEventListener('resize', ...)
AddResizeListener(n) == n + 1

\* scene.add(object)
SceneAdd(s, object) == Append(s, object)

\* AnimationMixer.update(delta): the playing clip's time, looping
MixerUpdate(m, delta) == [m EXCEPT !.time = (m.time + delta) % ClipLen]

\* renderer.render(scene, camera): what is drawn
Render(r, s, c, m) ==
    [size |-> r.size, objects |-> s, position |-> c.position,
     time |-> IF m = Null THEN -1 ELSE m.time]

\* variant: a missing container is skipped silently
AppendChildSilent(c) == FALSE

\* container.appendChild(canvas) throws a TypeError on a null container
AppendChildThrows(c) == c = "null"

\* variant: the error callback issues the load again
LoadFailedRetry(l) == [l EXCEPT !.state = "failed", !.calls = @ + 1]

\* the request after its error callback has run
LoadFailed(l) == [l EXCEPT !.state = "failed"]

----------------------------------------------------------------------------
(* The state after the constructor's field initialisers *)

Init ==
    /\ pc = "new"
    /\ container \in {"element", "null"}
    /\ window \in WindowSizes
    /\ camera = [fov |-> Fov, aspect |-> Aspect(window),
                 position |-> <<0, 0, 0>>]
    /\ renderer = [size |-> <<300, 150>>, style |-> "default",
                   attached |-> FALSE, frame |-> 0]
    /\ controls = Null
    /\ scene = <<>>
    /\ model = Null
    /\ mixer = Null
    /\ loader = [state |-> "none", calls |-> 0, completions |-> 0]
    /\ listeners = 0
    /\ rafPending = 0
    /\ console = [log |-> 0, error |-> 0]
    /\ ctorLog = <<>>
    /\ frameLog = <<>>
    /\ lastRender = Null

----------------------------------------------------------------------------
(* The methods *)

\* init(): appendChild on a null container throws after the renderer is sized
init ==
    /\ pc = "new"
    /\ ctorLog' = Append(ctorLog, "init")
    /\ IF AppendChildThrows(container)
       THEN /\ renderer' = [renderer EXCEPT !.size = window, !.style = "px"]
            /\ pc' = "threw"
            /\ UNCHANGED <<camera, controls, listeners>>
       ELSE /\ renderer' = [renderer EXCEPT !.size = window,
                                            !.style = "100%",
                                            !.attached = TRUE]
            /\ camera' = [camera EXCEPT !.position = CameraInitPosition]
            /\ controls' = [target |-> TargetInit,
                            minDistance |-> MinDistance,
                            maxDistance |-> MaxDistance,
                            autoRotate |-> TRUE,
                            enableDamping |-> TRUE,
                            enableZoom |-> FALSE,
                            enablePan |-> FALSE]
            /\ listeners' = AddResizeListener(listeners)
            /\ pc' = "init_done"
    /\ UNCHANGED <<container, window, scene, model, mixer, loader,
                   rafPending, console, frameLog, lastRender>>

RECURSIVE AddAll(_, _)
AddAll(s, objects) ==
    IF objects = <<>> THEN s
    ELSE AddAll(SceneAdd(s, Head(objects)), Tail(objects))

\* setupLights(): five lights added to the scene
setupLights ==
    /\ pc = "init_done"
    /\ ctorLog' = Append(ctorLog, "setupLights")
    /\ scene' = AddAll(scene, Lights)
    /\ pc' = "lights_done"
    /\ UNCHANGED <<container, window, camera, renderer, controls, model,
                   mixer, loader, listeners, rafPending, console, frameLog,
                   lastRender>>

\* loadModel(): one request is issued; its callbacks run later
loadModel ==
    /\ pc = "lights_done"
    /\ ctorLog' = Append(ctorLog, "loadModel")
    /\ loader' = [loader EXCEPT !.state = "pending", !.calls = @ + 1]
    /\ pc' = "load_started"
    /\ UNCHANGED <<container, window, camera, renderer, controls, scene,
                   model, mixer, listeners, rafPending, console, frameLog,
                   lastRender>>

\* variant: every clip of the asset is started
SetupAnimationsAll(m, animations) ==
    IF animations > 0
    THEN [root |-> "model", playing |-> 0..(animations - 1), time |-> 0]
    ELSE m

\* the mixer after the animation set-up of the load callback
SetupAnimations(m, animations) ==
    IF animations > 0
    THEN [root |-> "model", playing |-> {0}, time |-> 0]
    ELSE m

\* variant: only x is adjusted
CenterModelX(m, center) ==
    [m EXCEPT !.position = <<m.position[1] - center[1], m.position[2],
                             m.position[3]>>]

\* the model after "Adjust model position to center it"
CenterModel(m, center) ==
    [m EXCEPT !.position = <<m.position[1] - center[1], m.position[2],
                             m.position[3] - center[3]>>]

\* camera.position.z chosen from the model size
CameraZ(size, fov) ==
    LET maxDim == Max2(size[1], Max2(size[2], size[3]))
        cameraZ == Abs(TruncDiv(maxDim * 1000, SinHalfFov(fov)))
    IN  TruncDiv(cameraZ * 8, 10)

\* the orbit target the load callback sets
TargetOf(center) == <<0, TruncDiv(center[2] * 8, 10), 0>>

\* the camera position the load callback leaves, controls.update() included
FrameCamera(position, size, center, fov, ctl) ==
    ControlsUpdate(<<position[1], position[2], CameraZ(size, fov)>>,
                   [ctl EXCEPT !.target = TargetOf(center)])

\* the success callback of loader.load
onLoad(gltf) ==
    /\ pc = "idle"
    /\ loader.state = "pending"
    /\ LET placed == [box |-> gltf.box, animations |-> gltf.animations,
                      scale |-> <<120, 120, 120>>,
                      position |-> ModelInitPosition]
           box    == SetFromObject(placed)
           center == GetCenter(box)
           size   == GetSize(box)
       IN  /\ model' = CenterModel(placed, center)
           /\ scene' = SceneAdd(scene, "model")
           /\ mixer' = SetupAnimations(mixer, gltf.animations)
           /\ controls' = [controls EXCEPT !.target = TargetOf(center)]
           /\ camera' = [camera EXCEPT !.position =
                 FrameCamera(camera.position, size, center, camera.fov,
                             controls)]
    /\ loader' = [loader EXCEPT !.state = "loaded", !.completions = @ + 1]
    /\ UNCHANGED <<pc, container, window, renderer, listeners, rafPending,
                   console, ctorLog, frameLog, lastRender>>

\* the progress callback of loader.load
onProgress ==
    /\ pc = "idle"
    /\ loader.state = "pending"
    /\ console.log < MaxProgress
    /\ console' = [console EXCEPT !.log = console.log + 1]
    /\ UNCHANGED <<pc, container, window, camera, renderer, controls, scene,
                   model, mixer, loader, listeners, rafPending, ctorLog,
                   frameLog, lastRender>>

\* the error callback of loader.load
onError ==
    /\ pc = "idle"
    /\ loader.state = "pending"
    /\ loader' = LoadFailed(loader)
    /\ console' = [console EXCEPT !.error = console.error + 1]
    /\ UNCHANGED <<pc, container, window, camera, renderer, controls, scene,
                   model, mixer, listeners, rafPending, ctorLog, frameLog,
                   lastRender>>

\* variant: the renderer keeps its size
ResizeRendererStale(r, w) == r

\* what onWindowResize() does to the camera and the renderer
ResizeCamera(c, w) == [c EXCEPT !.aspect = Aspect(w)]
ResizeRenderer(r, w) == [r EXCEPT !.size = w, !.style = "px"]

\* the window takes a new size; the resize event runs the listeners
onWindowResize ==
    /\ pc \in {"idle", "threw"}
    /\ \E w \in WindowSizes \ {window} :
         /\ window' = w
         /\ IF listeners > 0
            THEN /\ camera' = ResizeCamera(camera, w)
                 /\ renderer' = ResizeRenderer(renderer, w)
            ELSE UNCHANGED <<camera, renderer>>
    /\ UNCHANGED <<pc, container, controls, scene, model, mixer, loader,
                   listeners, rafPending, console, ctorLog, frameLog,
                   lastRender>>

\* variant: the render call is issued before the animation advance
FrameCallsRenderFirst(m) ==
    <<"requestAnimationFrame", "controls.update", "render">>
    \o (IF m # Null THEN <<"mixer.update">> ELSE <<>>)

\* the library calls of one run of animate(), in order
FrameCalls(m) ==
    <<"requestAnimationFrame", "controls.update">>
    \o (IF m # Null THEN <<"mixer.update">> ELSE <<>>)
    \o <<"render">>

\* the body of animate(); pending is the number of callbacks still queued
animate(pending) ==
    /\ rafPending' = RequestAnimationFrame(pending)
    /\ camera' = [camera EXCEPT !.position =
                     ControlsUpdate(camera.position, controls)]
    /\ \E delta \in 0..MaxDelta :
         mixer' = IF mixer # Null THEN MixerUpdate(mixer, delta) ELSE mixer
    /\ frameLog' = FrameCalls(mixer)
    /\ renderer' = [renderer EXCEPT !.frame = (renderer.frame + 1) % FrameWrap]
    /\ lastRender' = Render(renderer, scene, camera', mixer')
    /\ UNCHANGED <<container, window, controls, scene, model, loader,
                   listeners, console>>

\* the constructor's own call of animate()
firstFrame ==
    /\ pc = "load_started"
    /\ ctorLog' = Append(ctorLog, "animate")
    /\ pc' = "idle"
    /\ animate(rafPending)

\* the browser runs a requested frame callback
frameCallback ==
    /\ pc = "idle"
    /\ rafPending > 0
    /\ animate(rafPending - 1)
    /\ UNCHANGED <<pc, ctorLog>>

Next ==
    \/ init
    \/ setupLights
    \/ loadModel
    \/ firstFrame
    \/ frameCallback
    \/ \E gltf \in Assets : onLoad(gltf)
    \/ onProgress
    \/ onError
    \/ onWindowResize

Spec == Init /\ [][Next]_vars

\* the browser keeps running requested frame callbacks, and the
\* constructor runs to its end
LiveSpec == Spec /\ WF_vars(frameCallback)
                 /\ WF_vars(init \/ setupLights \/ loadModel \/ firstFrame)

----------------------------------------------------------------------------
(* Claims *)

CtorOrder == <<"init", "setupLights", "loadModel", "animate">>

IsPrefix(a, b) == Len(a) <= Len(b) /\ SubSeq(b, 1, Len(a)) = a

InSeq(x, q) == \E i \in 1..Len(q) : q[i] = x

\* C1: the constructor calls init, setupLights, loadModel and animate once
\* each and in this order, init registers exactly one resize listener, and
\* the load completion callback runs at most once and only after loadModel.
C1_ConstructionOrder ==
    /\ IsPrefix(ctorLog, CtorOrder)
    /\ pc = "idle" => ctorLog = CtorOrder
    /\ pc \in {"init_done", "lights_done", "load_started", "idle"}
          => listeners = 1
    /\ InSeq("loadModel", ctorLog) => loader.calls = 1
    /\ loader.completions <= 1
    /\ loader.completions > 0 => InSeq("loadModel", ctorLog)
    /\ loader.state = "loaded" <=> loader.completions = 1

C1_Witness ==
    /\ pc = "idle"
    /\ ctorLog = CtorOrder
    /\ loader.completions = 1
    /\ listeners = 1

\* C2: every run of animate leaves exactly one frame callback pending, and
\* under fair scheduling of frame callbacks frames are rendered infinitely
\* often, whether the load stays pending, has succeeded, or has failed.
C2_FrameLoop ==
    /\ [](pc = "idle" => rafPending = 1)
    /\ [][renderer'.frame # renderer.frame => rafPending' = 1]_vars
    /\ \A s \in {"pending", "loaded", "failed"} :
          <>[](pc = "idle" /\ loader.state = s)
             => []<><<frameCallback /\ lastRender' # Null>>_vars

C2_Witness ==
    /\ pc = "idle"
    /\ rafPending = 1
    /\ renderer.frame = 0
    /\ lastRender # Null
    /\ loader.state = "failed"

\* C3: a frame calls the controller update, then the animation advance,
\* then the render; the animation advance happens exactly when a mixer
\* exists at that frame, and every frame renders (what is drawn is the
\* camera and the animation time the frame has just updated).
C3_FrameOrder ==
    [][renderer'.frame # renderer.frame =>
         /\ SelectSeq(frameLog', LAMBDA c : c # "requestAnimationFrame")
              = IF mixer # Null
                THEN <<"controls.update", "mixer.update", "render">>
                ELSE <<"controls.update", "render">>
         /\ lastRender' # Null
         /\ lastRender'.position = camera'.position
         /\ lastRender'.objects = scene
         /\ IF mixer # Null
            THEN mixer' # Null /\ lastRender'.time = mixer'.time
            ELSE mixer' = Null /\ lastRender'.time = -1
    ]_vars

C3_Witness ==
    /\ frameLog = <<"requestAnimationFrame", "controls.update",
                    "mixer.update", "render">>
    /\ lastRender # Null
    /\ lastRender.time = 1

\* camera positions the controller reaches from the position init sets
InitOrbit == {<<0, 150, 400>>, <<400, 150, 0>>, <<0, 150, -400>>,
              <<-400, 150, 0>>}

\* C4: a failed load logs one console error and changes nothing else: model
\* and mixer stay null, the scene holds the five lights only, the orbit
\* target stays where init put it and the camera moves only by controller
\* updates, the load is not issued again, and a frame callback stays pending.
C4_LoadFailure ==
    /\ [](loader.state = "failed" =>
            /\ model = Null
            /\ mixer = Null
            /\ scene = <<"ambientLight", "frontLight", "backLight",
                         "rightLight", "leftLight">>
            /\ controls.target = <<0, 50, 0>>
            /\ camera.position \in InitOrbit
            /\ loader.calls = 1
            /\ loader.completions = 0
            /\ console.error = 1
            /\ rafPending = 1)
    /\ [][loader.state = "pending" /\ loader'.state = "failed" =>
            /\ console'.error = console.error + 1
            /\ console'.log = console.log
            /\ loader'.calls = loader.calls
            /\ UNCHANGED <<pc, container, window, camera, renderer, controls,
                           scene, model, mixer, listeners, rafPending,
                           ctorLog, frameLog, lastRender>>]_vars
    /\ [][loader.state = "failed" => loader' = loader]_vars

C4_Witness ==
    /\ loader.state = "failed"
    /\ console.error = 1
    /\ camera.position = <<0, 150, -400>>
    /\ lastRender # Null
    /\ lastRender.objects = Lights

\* C5: after a successful load of an asset with animations a mixer bound to
\* the model exists and exactly clip 0 has been started; after a successful
\* load of an asset without animations the mixer is null and no frame
\* advances animation time.
C5_AnimationClip ==
    loader.state = "loaded" =>
        IF model.animations > 0
        THEN /\ mixer # Null
             /\ mixer.root = "model"
             /\ mixer.playing = {0}
        ELSE /\ mixer = Null
             /\ ~InSeq("mixer.update", frameLog)
             /\ lastRender # Null => lastRender.time = -1

C5_Witness ==
    /\ loader.state = "loaded"
    /\ model.animations = 2
    /\ mixer # Null
    /\ mixer.playing = {0}
    /\ mixer.time = 1
    /\ InSeq("mixer.update", frameLog)

C5_WitnessNoClip ==
    /\ loader.state = "loaded"
    /\ model.animations = 0
    /\ renderer.frame = 0

\* C6: a resize handled after init sets the camera aspect to
\* innerWidth/innerHeight and the renderer size to the window size and
\* leaves model, mixer, scene, camera position and orbit target alone, so
\* every frame is rendered at the size of the most recent resize.
C6_Resize ==
    /\ [](pc = "idle" =>
            /\ renderer.size = window
            /\ camera.aspect.num * window[2] = camera.aspect.den * window[1])
    /\ [][window' # window /\ listeners > 0 =>
            /\ renderer'.size = window'
            /\ camera'.aspect.num * window'[2]
                  = camera'.aspect.den * window'[1]
            /\ camera'.position = camera.position
            /\ UNCHANGED <<model, mixer, scene, controls>>]_vars
    /\ [][renderer'.frame # renderer.frame =>
            lastRender'.size = window']_vars

C6_Witness ==
    /\ pc = "idle"
    /\ renderer.style = "px"
    /\ loader.state = "loaded"
    /\ lastRender # Null
    /\ lastRender.size = window
    /\ renderer.frame = 0

\* C7 as claimed: after the load callback the centre of the model's
\* bounding box is the orbit target.
C7_Original ==
    loader.state = "loaded" =>
        GetCenter(SetFromObject(model)) = controls.target

\* C7 as amended: after the load callback the centre of the model's
\* bounding box and the orbit target agree in x and z (both are 0), and the
\* height of the target is 0.8 times the height of the centre.
C7_Centered ==
    loader.state = "loaded" =>
        LET center == GetCenter(SetFromObject(model))
        IN  /\ center[1] = 0 /\ controls.target[1] = 0
            /\ center[3] = 0 /\ controls.target[3] = 0
            /\ 10 * controls.target[2] = 8 * center[2]

C7_Witness ==
    /\ loader.state = "loaded"
    /\ model.position[1] # 0
    /\ model.position[3] # 0
    /\ GetCenter(SetFromObject(model))[2] # 0
    /\ controls.target # TargetInit

\* the camera position when the constructor returns
IdlePosition == <<400, 150, 0>>

FiveLights == <<"ambientLight", "frontLight", "backLight", "rightLight",
                "leftLight">>

\* C9: once constructed, the scene holds the five lights and at most one
\* model; model and mixer start null, are assigned at most once and are
\* never reset or replaced; a mixer exists only with a model in the scene.
C9_SceneContents ==
    /\ model = Null /\ mixer = Null
    /\ [](pc = "idle" =>
            /\ scene \in {FiveLights, FiveLights \o <<"model">>}
            /\ InSeq("model", scene) <=> model # Null)
    /\ [](mixer # Null => model # Null /\ InSeq("model", scene))
    /\ [][model # Null => model' = model]_vars
    /\ [][mixer # Null =>
            /\ mixer' # Null
            /\ mixer'.root = mixer.root
            /\ mixer'.playing = mixer.playing]_vars

C9_Witness ==
    /\ pc = "idle"
    /\ scene = FiveLights \o <<"model">>
    /\ model # Null
    /\ mixer # Null
    /\ mixer.time = 1

\* C10: with no container element the constructor throws inside init at
\* the append of the canvas: the renderer has been sized, but no controller
\* exists, no resize listener is registered, no light is added, no load is
\* started and no frame callback is scheduled, ever.
C10_MissingContainer ==
    container = "null" =>
        /\ pc \in {"new", "threw"}
        /\ pc = "threw" => ctorLog = <<"init">> /\ renderer.style = "px"
        /\ ~renderer.attached
        /\ controls = Null
        /\ listeners = 0
        /\ scene = <<>>
        /\ loader.calls = 0 /\ loader.state = "none"
        /\ rafPending = 0
        /\ frameLog = <<>>
        /\ lastRender = Null
        /\ camera.position = <<0, 0, 0>>

C10_Witness ==
    /\ container = "null"
    /\ pc = "threw"
    /\ window # renderer.size
====
